---- MODULE Spec2Model ----
(***************************************************************************)
(* prepare_data.py: read a DEM raster, derive slope in degrees with        *)
(* np.gradient, write the slope raster, bin the slope into five classes,   *)
(* report the class distribution and write the class raster.               *)
(*                                                                         *)
(* Numbers.  An elevation is a float32: NaN or an integer value that       *)
(* float32 holds exactly.  A gradient is NaN or the exact quotient n/d     *)
(* (d = 0 with n # 0 is +-inf, the IEEE result of x/0).  All pixel sizes   *)
(* of the model are powers of two, so every quotient and every sum of      *)
(* squares below the saturation limit is exact in float32.                 *)
(* A slope is NaN or an angle in [0, 90] degrees, held as the square of    *)
(* its tangent n/d in lowest terms, d = 0 standing for exactly 90.0.  The  *)
(* float32 chain arctan -> degrees is monotone and returns exactly 90.0f   *)
(* once the gradient magnitude reaches F32_ATAN_SAT (the result of arctan  *)
(* rounds to float32(pi/2), whose product with 180/pi rounds to 90.0f).    *)
(***************************************************************************)
EXTENDS Integers, Sequences, FiniteSets, TLC

VARIABLES
    pc,           \* position in main / compute_slope_and_classes
    dem_exists,   \* dem_path.exists()
    src,          \* the raster stored at dem_path
    mkdir_called, \* data_dir.mkdir(exist_ok=True) has run
    dem,          \* src.read(1).astype("float32")
    nodata,       \* dem_profile.get("nodata")
    transform,    \* src.transform (a = pixel width, e = pixel height)
    mask,         \* validity mask, TRUE = no data
    slope_deg,    \* float32 slope grid
    classes,      \* uint8 class grid
    count,        \* count[i], i in 0..4, of the class distribution
    pct,          \* pct[i] = 100 * count[i] / (~mask).sum(), as a quotient
    slope_file,   \* the raster at slope_path
    class_file,   \* the raster at class_path
    err,          \* the exception that ended the run, "none" if none
    ret           \* main's return value, -1 while it has not returned

vars == <<pc, dem_exists, src, mkdir_called, dem, nodata, transform, mask,
          slope_deg, classes, count, pct, slope_file, class_file, err, ret>>

----------------------------------------------------------------------------
(* Bounds of the general input family *)
MaxRows == 3
MaxCols == 3
MaxSpecial == 2

----------------------------------------------------------------------------
(* float32 values *)
NaN == [nan |-> TRUE, v |-> 0]
Num(x) == [nan |-> FALSE, v |-> x]

Abs(x) == IF x < 0 THEN -x ELSE x

RECURSIVE GCD(_, _)
GCD(a, b) == IF b = 0 THEN a ELSE GCD(b, a % b)

\* IEEE equality: NaN equals nothing, itself included
FEq(x, y) == ~x.nan /\ ~y.nan /\ x.v = y.v

\* the power of two that is one unit in the last place of a float32 of
\* magnitude m (24-bit significand)
RECURSIVE Ulp(_, _)
Ulp(m, q) == IF m \div q < 16777216 THEN q ELSE Ulp(m, 2 * q)

\* round an integer to the nearest float32, ties to even
F32(x) ==
    LET m == Abs(x)
        q == Ulp(m, 1)
        lo == (m \div q) * q
        r == m - lo
        up == IF 2 * r > q THEN TRUE
              ELSE IF 2 * r < q THEN FALSE
              ELSE (m \div q) % 2 = 1
        y == IF up THEN lo + q ELSE lo
    IN  IF x < 0 THEN -y ELSE y

\* float32 subtraction x - y of two elevations
FSub(x, y) == IF x.nan \/ y.nan THEN NaN ELSE Num(F32(x.v - y.v))

\* float32 division of a difference by a spacing h >= 0
FDiv(x, h) ==
    IF x.nan THEN [nan |-> TRUE, n |-> 0, d |-> 1]
    ELSE IF h = 0 THEN
        IF x.v = 0 THEN [nan |-> TRUE, n |-> 0, d |-> 1]
        ELSE [nan |-> FALSE, n |-> x.v, d |-> 0]
    ELSE [nan |-> FALSE, n |-> x.v, d |-> h]

----------------------------------------------------------------------------
(* Helpers of compute_slope_and_classes *)
Cells(R, C) == (1..R) \X (1..C)

\* lines 51-56: mask = dem == nodata if a sentinel is declared, else isnan(dem)
ValidityMask(d, nd) ==
    [p \in DOMAIN d |-> IF nd.declared THEN FEq(d[p], nd.val) ELSE d[p].nan]

\* mutant: a negative pixel size is clamped to 0
PixelSize_Clamp(t) == IF t < 0 THEN 0 ELSE t

\* lines 64-65: xres = abs(transform.a), yres = abs(transform.e)
PixelSize(t) == Abs(t)

\* mutant: the one-sided differences are divided by the doubled spacing too
Gradient1D_HalfEdge(f, n, i, h) ==
    IF i = 1 THEN FDiv(FSub(f[2], f[1]), 2 * h)
    ELSE IF i = n THEN FDiv(FSub(f[n], f[n - 1]), 2 * h)
    ELSE FDiv(FSub(f[i + 1], f[i - 1]), 2 * h)

\* np.gradient along one axis of n >= 2 samples f[1..n] with spacing h:
\* one-sided differences at both ends, centered differences inside
Gradient1D(f, n, i, h) ==
    IF i = 1 THEN FDiv(FSub(f[2], f[1]), h)
    ELSE IF i = n THEN FDiv(FSub(f[n], f[n - 1]), h)
    ELSE FDiv(FSub(f[i + 1], f[i - 1]), 2 * h)

\* line 71: np.gradient raises ValueError on an axis shorter than 2
GradientRaises(R, C) == R < 2 \/ C < 2

\* line 71: gy is the gradient along rows (axis 0, spacing yres)
GradY(d, R, C, yres, p) ==
    Gradient1D([r \in 1..R |-> d[<<r, p[2]>>]], R, p[1], yres)

\* line 71: gx is the gradient along columns (axis 1, spacing xres)
GradX(d, R, C, xres, p) ==
    Gradient1D([c \in 1..C |-> d[<<p[1], c>>]], C, p[2], xres)

\* smallest gradient magnitude whose float32 arctan (correctly rounded), in
\* degrees, is 90.0f
F32_ATAN_SAT == 62919775

SlopeNaN == [nan |-> TRUE, n |-> 0, d |-> 1]
Deg90 == [nan |-> FALSE, n |-> 1, d |-> 0]
Deg0 == [nan |-> FALSE, n |-> 0, d |-> 1]

\* the angle whose squared tangent is n/d, d > 0
TanSq(n, d) == LET g == GCD(n, d) IN [nan |-> FALSE, n |-> n \div g, d |-> d \div g]

IsInf(g) == ~g.nan /\ g.d = 0
Saturates(g) == ~g.nan /\ g.d > 0 /\ Abs(g.n) \div g.d >= F32_ATAN_SAT

\* mutant: the gradient along rows is left out of the magnitude
SlopeDeg_XOnly(gx, gy) ==
    IF gx.nan \/ gy.nan THEN SlopeNaN
    ELSE IF IsInf(gx) THEN Deg90
    ELSE IF Saturates(gx) THEN Deg90
    ELSE TanSq(gx.n * gx.n, gx.d * gx.d)

\* lines 74-75: degrees(arctan(sqrt(gx**2 + gy**2))).astype("float32")
SlopeDeg(gx, gy) ==
    IF gx.nan \/ gy.nan THEN SlopeNaN
    ELSE IF IsInf(gx) \/ IsInf(gy) THEN Deg90
    ELSE IF Saturates(gx) \/ Saturates(gy) THEN Deg90
    ELSE TanSq(gx.n * gx.n * gy.d * gy.d + gy.n * gy.n * gx.d * gx.d,
               gx.d * gx.d * gy.d * gy.d)

\* mutant: the mask is not applied to the slope
RespectMask_Skip(s, m) == s

\* line 78: slope_deg[mask] = np.nan
RespectMask(s, m) == [p \in DOMAIN s |-> IF m[p] THEN SlopeNaN ELSE s[p]]

\* lines 71-78 for a grid of at least 2 x 2 cells
SlopeGrid(d, m, R, C, xres, yres) ==
    RespectMask([p \in Cells(R, C) |->
                    SlopeDeg(GradX(d, R, C, xres, p), GradY(d, R, C, yres, p))],
                m)

\* line 97
bins == <<5, 15, 30, 45>>

\* tan(t)^2 for the bin edges, in units of 1/TanScale, rounded up; only
\* tan(45)^2 = 1 is rational, and no sum of two rational squares equals
\* tan(30)^2 = 1/3, so 45 is the only edge a gradient of the model can hit
TanScale == 10000
TanSqUp(t) == CASE t = 5 -> 77 [] t = 15 -> 718 [] t = 30 -> 3334 [] t = 45 -> 10000

\* slope s (not NaN) >= t degrees, t a bin edge
DegGE(s, t) ==
    IF s.d = 0 \/ s.n >= s.d THEN TRUE
    ELSE s.n * TanScale >= TanSqUp(t) * s.d

\* slope s (not NaN) > t degrees: 45 is the one edge a slope can equal
DegGT(s, t) == DegGE(s, t) /\ ~(t = 45 /\ s.d # 0 /\ s.n = s.d)

\* mutant: right=True, the number of edges < x
Digitize_Right(x, b) ==
    IF x.nan THEN Len(b)
    ELSE Cardinality({i \in 1..Len(b) : DegGT(x, b[i])})

\* line 112: np.digitize(x, bins, right=False): the number of edges <= x;
\* NaN sorts after every edge
Digitize(x, b) ==
    IF x.nan THEN Len(b)
    ELSE Cardinality({i \in 1..Len(b) : DegGE(x, b[i])})

\* line 112: .astype("uint8")
Uint8(x) == x % 256

\* mutant: the classes of no-data cells are left as digitized
MaskClasses_Skip(c, m) == c

\* line 115: classes[mask] = 0
MaskClasses(c, m) == [p \in DOMAIN c |-> IF m[p] THEN 0 ELSE c[p]]

\* lines 112-115
ClassGrid(s, m) == MaskClasses([p \in DOMAIN s |-> Uint8(Digitize(s[p], bins))], m)

\* line 103: len(class_names)
NumClasses == 5

\* line 120: count = np.sum(classes == i)
ClassCount(c, i) == Cardinality({p \in DOMAIN c : c[p] = i})

\* line 121: (~mask).sum()
ValidPixels(m) == Cardinality({p \in DOMAIN m : ~m[p]})

\* line 121: pct = 100 * count / (~mask).sum()
ClassPct(cnt, m) == [n |-> 100 * cnt, d |-> ValidPixels(m)]

----------------------------------------------------------------------------
(* Inputs *)
NoData == [declared |-> FALSE, val |-> NaN]
Sentinel(x) == [declared |-> TRUE, val |-> x]

EmptyGrid == [p \in {} |-> NaN]
NoFile == [state |-> "absent", data |-> EmptyGrid]

\* what src holds when dem_path does not exist
NoRaster ==
    [readable |-> FALSE, rows |-> 0, cols |-> 0, data |-> EmptyGrid,
     nodata |-> NoData, a |-> 1, e |-> -1]

\* a file at dem_path that rasterio cannot open
Unreadable == [NoRaster EXCEPT !.rows = 1]

Raster(R, C, d, nd, a, e) ==
    [readable |-> TRUE, rows |-> R, cols |-> C, data |-> d,
     nodata |-> nd, a |-> a, e |-> e]

SubsetsUpTo(S, k) == {T \in SUBSET S : Cardinality(T) <= k}

\* the grids of R x C cells that hold b everywhere but in at most k cells,
\* which hold v
Grids(R, C, Vals, k) ==
    {[p \in Cells(R, C) |-> IF p \in T THEN v ELSE b] :
        T \in SubsetsUpTo(Cells(R, C), k), b \in Vals, v \in Vals}

\* elevations of gentle terrain, and NaN
Elevations == {Num(0), Num(1), NaN}
Sentinels == {NoData, Sentinel(Num(0)), Sentinel(NaN)}

\* elevations with a step so large that the float32 arctan saturates
SteepElevations == {Num(0), Num(1), Num(2000000000)}
SteepSentinels == {NoData, Sentinel(Num(0)), Sentinel(Num(2000000000))}

\* north-up rasters: positive pixel width a, negative pixel height e
PixelSizes == {[a |-> 1, e |-> -1], [a |-> 8, e |-> -1]}

\* the general family: every shape up to MaxRows x MaxCols
Rasters(r, Vals, Sents) ==
    \E R \in 1..MaxRows, C \in 1..MaxCols :
        \E d \in Grids(R, C, Vals, MaxSpecial), nd \in Sents, t \in PixelSizes :
            r = Raster(R, C, d, nd, t.a, t.e)

\* 3 x 3 grids of the elevations 0 and 10 at unit spacing, no sentinel
EdgeRasters(r) ==
    \E d \in [Cells(3, 3) -> {Num(0), Num(10)}] :
        r = Raster(3, 3, d, NoData, 1, -1)

\* 2 x 2 grids under pixel sizes of either sign and of size zero
SignedSizes == {-8, -1, 0, 1, 8}
SpacingRasters(r) ==
    \E d \in [Cells(2, 2) -> {Num(0), Num(1), NaN}],
       nd \in {NoData, Sentinel(Num(0))}, a \in SignedSizes, e \in SignedSizes :
        r = Raster(2, 2, d, nd, a, e)

\* everything but the file at dem_path, as main finds it
InitRun ==
    /\ pc = "main"
    /\ mkdir_called = FALSE
    /\ dem = EmptyGrid
    /\ nodata = NoData
    /\ transform = [a |-> 0, e |-> 0]
    /\ mask = EmptyGrid
    /\ slope_deg = EmptyGrid
    /\ classes = EmptyGrid
    /\ count = <<>>
    /\ pct = <<>>
    /\ slope_file = NoFile
    /\ class_file = NoFile
    /\ err = "none"
    /\ ret = -1

Init ==
    /\ dem_exists \in BOOLEAN
    /\ IF dem_exists
       THEN src = Unreadable \/ Rasters(src, Elevations, Sentinels)
       ELSE src = NoRaster
    /\ InitRun

InitSteep ==
    /\ dem_exists \in BOOLEAN
    /\ IF dem_exists
       THEN src = Unreadable \/ Rasters(src, SteepElevations, SteepSentinels)
       ELSE src = NoRaster
    /\ InitRun

InitEdge ==
    /\ dem_exists \in BOOLEAN
    /\ IF dem_exists THEN src = Unreadable \/ EdgeRasters(src) ELSE src = NoRaster
    /\ InitRun

InitSpacing ==
    /\ dem_exists \in BOOLEAN
    /\ IF dem_exists THEN src = Unreadable \/ SpacingRasters(src) ELSE src = NoRaster
    /\ InitRun

----------------------------------------------------------------------------
(* main, lines 143-154: return 1 if the DEM is missing, else mkdir *)
CheckInput ==
    /\ pc = "main"
    /\ IF ~dem_exists
       THEN /\ ret' = 1
            /\ pc' = "done"
            /\ UNCHANGED mkdir_called
       ELSE /\ mkdir_called' = TRUE
            /\ pc' = "read"
            /\ UNCHANGED ret
    /\ UNCHANGED <<dem_exists, src, dem, nodata, transform, mask, slope_deg,
                   classes, count, pct, slope_file, class_file, err>>

(* lines 41-58: read band 1 as float32, the profile and the transform, and
   derive the mask; rasterio.open raises on a file it cannot read *)
ReadDEM ==
    /\ pc = "read"
    /\ IF ~src.readable
       THEN /\ err' = "RasterioIOError"
            /\ pc' = "done"
            /\ UNCHANGED <<dem, nodata, transform, mask>>
       ELSE /\ dem' = src.data
            /\ nodata' = src.nodata
            /\ transform' = [a |-> src.a, e |-> src.e]
            /\ mask' = ValidityMask(src.data, src.nodata)
            /\ pc' = "gradient"
            /\ UNCHANGED err
    /\ UNCHANGED <<dem_exists, src, mkdir_called, slope_deg, classes, count,
                   pct, slope_file, class_file, ret>>

(* lines 63-81: pixel size, np.gradient, slope in degrees, mask *)
ComputeSlope ==
    /\ pc = "gradient"
    /\ IF GradientRaises(src.rows, src.cols)
       THEN /\ err' = "ValueError"
            /\ pc' = "done"
            /\ UNCHANGED slope_deg
       ELSE /\ slope_deg' = SlopeGrid(dem, mask, src.rows, src.cols,
                                      PixelSize(transform.a), PixelSize(transform.e))
            /\ pc' = "write_slope"
            /\ UNCHANGED err
    /\ UNCHANGED <<dem_exists, src, mkdir_called, dem, nodata, transform, mask,
                   classes, count, pct, slope_file, class_file, ret>>

\* what a write to a raster file leaves on disk: the whole grid, or on an
\* I/O error a file that is missing or truncated ("failed" stands for both)
WriteOutcomes == {"complete", "failed"}
Written(out, grid) ==
    [state |-> out, data |-> IF out = "complete" THEN grid ELSE EmptyGrid]

\* mutant: the slope raster is not written before classification
WriteSlope_Skip ==
    /\ pc = "write_slope"
    /\ pc' = "classify"
    /\ UNCHANGED <<dem_exists, src, mkdir_called, dem, nodata, transform, mask,
                   slope_deg, classes, count, pct, slope_file, class_file, err, ret>>

(* lines 83-91: write the slope raster *)
WriteSlope ==
    /\ pc = "write_slope"
    /\ \E out \in WriteOutcomes :
        /\ slope_file' = Written(out, slope_deg)
        /\ IF out = "complete"
           THEN pc' = "classify" /\ UNCHANGED err
           ELSE pc' = "done" /\ err' = "IOError"
    /\ UNCHANGED <<dem_exists, src, mkdir_called, dem, nodata, transform, mask,
                   slope_deg, classes, count, pct, class_file, ret>>

(* lines 93-122: digitize, mask override, class distribution *)
Classify ==
    /\ pc = "classify"
    /\ LET c == ClassGrid(slope_deg, mask)
           cnt == [i \in 0..(NumClasses - 1) |-> ClassCount(c, i)]
       IN  /\ classes' = c
           /\ count' = cnt
           /\ pct' = [i \in 0..(NumClasses - 1) |-> ClassPct(cnt[i], mask)]
    /\ pc' = "write_classes"
    /\ UNCHANGED <<dem_exists, src, mkdir_called, dem, nodata, transform, mask,
                   slope_deg, slope_file, class_file, err, ret>>

(* lines 124-132: write the class raster *)
WriteClasses ==
    /\ pc = "write_classes"
    /\ \E out \in WriteOutcomes :
        /\ class_file' = Written(out, classes)
        /\ IF out = "complete"
           THEN pc' = "complete" /\ UNCHANGED err
           ELSE pc' = "done" /\ err' = "IOError"
    /\ UNCHANGED <<dem_exists, src, mkdir_called, dem, nodata, transform, mask,
                   slope_deg, classes, count, pct, slope_file, ret>>

(* main, lines 164-174: report and return 0 *)
Return0 ==
    /\ pc = "complete"
    /\ ret' = 0
    /\ pc' = "done"
    /\ UNCHANGED <<dem_exists, src, mkdir_called, dem, nodata, transform, mask,
                   slope_deg, classes, count, pct, slope_file, class_file, err>>

Next ==
    \/ CheckInput
    \/ ReadDEM
    \/ ComputeSlope
    \/ WriteSlope
    \/ Classify
    \/ WriteClasses
    \/ Return0

Spec == Init /\ [][Next]_vars
SpecSteep == InitSteep /\ [][Next]_vars
SpecEdge == InitEdge /\ [][Next]_vars
SpecSpacing == InitSpacing /\ [][Next]_vars

----------------------------------------------------------------------------
(* Vocabulary of the properties: the input raster and the rasters on disk *)
SlopeWritten == slope_file.state = "complete"
ClassWritten == class_file.state = "complete"

\* cell p of the input holds no data: it equals the declared sentinel, or it
\* is NaN when no sentinel is declared
Invalid(p) ==
    IF src.nodata.declared THEN FEq(src.data[p], src.nodata.val)
    ELSE src.data[p].nan

InputCells == DOMAIN src.data

\* the gradient g equals the fraction n/d
RatEq(g, n, d) == ~g.nan /\ g.d # 0 /\ g.n * d = n * g.d

\* slope s is a number below t degrees
DegLT(s, t) == ~s.nan /\ ~DegGE(s, t)

----------------------------------------------------------------------------
\* C1 (mask propagation): every cell of the input that holds no data has the
\* missing marker NaN as its slope in the slope raster and class 0 in the
\* class raster, whatever elevation it and its neighbours hold.
C1_MaskPropagation ==
    \A p \in InputCells :
        Invalid(p) =>
            /\ SlopeWritten => slope_file.data[p] = SlopeNaN
            /\ ClassWritten => class_file.data[p] = 0

\* a sentinel cell beside a valid cell, both rasters written
C1_Witness ==
    /\ ClassWritten
    /\ \E p, q \in InputCells :
        /\ Invalid(p) /\ ~src.data[p].nan
        /\ ~Invalid(q) /\ ~src.data[q].nan
        /\ class_file.data[q] # 0

\* C2 (half-open binning): a valid cell with slope s has class 0 if s < 5,
\* 1 if 5 <= s < 15, 2 if 15 <= s < 30, 3 if 30 <= s < 45 and 4 if s >= 45;
\* a slope of exactly 45 degrees is class 4; every valid cell's class is in
\* 0..4.
C2_HalfOpenBinning ==
    ClassWritten =>
        \A p \in InputCells :
            ~Invalid(p) =>
                LET s == slope_file.data[p]
                    c == class_file.data[p]
                IN  /\ c \in 0..4
                    /\ DegLT(s, 5) => c = 0
                    /\ ~s.nan /\ DegGE(s, 5) /\ DegLT(s, 15) => c = 1
                    /\ ~s.nan /\ DegGE(s, 15) /\ DegLT(s, 30) => c = 2
                    /\ ~s.nan /\ DegGE(s, 30) /\ DegLT(s, 45) => c = 3
                    /\ ~s.nan /\ DegGE(s, 45) => c = 4
                    /\ s = TanSq(1, 1) => c = 4

\* a raster with valid cells of classes 0, 3 and 4, the class 4 cell having
\* a slope of exactly 45 degrees
C2_Witness ==
    /\ ClassWritten
    /\ \A c \in {0, 3, 4} : \E p \in InputCells : ~Invalid(p) /\ class_file.data[p] = c
    /\ \E p \in InputCells :
        ~Invalid(p) /\ slope_file.data[p] = TanSq(1, 1) /\ class_file.data[p] = 4

----------------------------------------------------------------------------
\* the grid with rows [0 0 0], [0 0 0], [10 10 10]
RampGrid == [p \in Cells(3, 3) |-> IF p[1] = 3 THEN Num(10) ELSE Num(0)]
RampRun == src.readable /\ src.data = RampGrid /\ SlopeWritten /\ ClassWritten

\* C3 as stated: on the 3 x 3 grid above at spacing (1,1), the corner cell
\* (0,0) has gx = gy = 0, slope 0 and class 0; the bottom-row cell (2,1) has
\* slope 0; the middle cell (1,1) has gy = 5, slope atan(5) and class 4.
\* (Cells are <<row + 1, column + 1>> here.)
C3_AsStated ==
    RampRun =>
        /\ RatEq(GradX(dem, 3, 3, 1, <<1, 1>>), 0, 1)
        /\ RatEq(GradY(dem, 3, 3, 1, <<1, 1>>), 0, 1)
        /\ slope_file.data[<<1, 1>>] = Deg0
        /\ class_file.data[<<1, 1>>] = 0
        /\ slope_file.data[<<3, 2>>] = Deg0
        /\ RatEq(GradY(dem, 3, 3, 1, <<2, 2>>), 5, 1)
        /\ slope_file.data[<<2, 2>>] = TanSq(25, 1)
        /\ class_file.data[<<2, 2>>] = 4

\* C3 amended: as stated for the cells (0,0) and (1,1), but the bottom-row
\* cell (2,1) has the one-sided difference gy = (10 - 0)/1 = 10 and gx = 0,
\* so its slope is atan(10) and its class 4.
C3_EdgeCells ==
    RampRun =>
        /\ RatEq(GradX(dem, 3, 3, 1, <<1, 1>>), 0, 1)
        /\ RatEq(GradY(dem, 3, 3, 1, <<1, 1>>), 0, 1)
        /\ slope_file.data[<<1, 1>>] = Deg0
        /\ class_file.data[<<1, 1>>] = 0
        /\ RatEq(GradX(dem, 3, 3, 1, <<3, 2>>), 0, 1)
        /\ RatEq(GradY(dem, 3, 3, 1, <<3, 2>>), 10, 1)
        /\ slope_file.data[<<3, 2>>] = TanSq(100, 1)
        /\ class_file.data[<<3, 2>>] = 4
        /\ RatEq(GradY(dem, 3, 3, 1, <<2, 2>>), 5, 1)
        /\ slope_file.data[<<2, 2>>] = TanSq(25, 1)
        /\ class_file.data[<<2, 2>>] = 4

\* the run on that grid has written both rasters and returned
C3_Witness == RampRun /\ ret = 0 /\ transform = [a |-> 1, e |-> -1]

----------------------------------------------------------------------------
\* C4 as stated: a grid with one row or one column is no error: the slope
\* computation does not raise on it.
C4_Degenerate ==
    src.readable /\ (src.rows = 1 \/ src.cols = 1) => err # "ValueError"

----------------------------------------------------------------------------
\* the slope computation has gone past np.gradient
SlopeComputed ==
    pc \in {"write_slope", "classify", "write_classes", "complete"}
        \/ slope_file.state # "absent"

----------------------------------------------------------------------------
\* every cell of the input holds the same elevation
ConstantGrid ==
    src.readable /\ \E p \in InputCells : \A q \in InputCells : FEq(src.data[p], src.data[q])

\* C6 (flat grid): on a constant-elevation grid of any size the slope written
\* for every cell outside no-data is 0 degrees and the class written for
\* every cell is 0.
C6_FlatGrid ==
    ConstantGrid =>
        \A p \in InputCells :
            /\ SlopeWritten /\ ~Invalid(p) => slope_file.data[p] = Deg0
            /\ ClassWritten => class_file.data[p] = 0

\* a constant grid whose cells all equal the sentinel, both rasters written
C6_WitnessMasked ==
    ConstantGrid /\ ClassWritten /\ \A p \in InputCells : Invalid(p)

\* a constant grid of valid cells, both rasters written
C6_Witness ==
    ConstantGrid /\ ClassWritten /\ src.rows = 3 /\ src.cols = 3
        /\ \A p \in InputCells : ~Invalid(p)

----------------------------------------------------------------------------
\* no cell of the input is NaN
FiniteGrid == src.readable /\ \A p \in InputCells : ~src.data[p].nan

\* C7 as stated: on a grid of finite elevations with positive spacing the
\* slope written for each valid cell lies in [0, 90): never negative, never
\* reaching 90.
C7_AsStated ==
    FiniteGrid /\ SlopeWritten =>
        \A p \in InputCells :
            ~Invalid(p) =>
                LET s == slope_file.data[p]
                IN  ~s.nan /\ s.n >= 0 /\ s.d > 0

\* C7 amended: on a grid of finite elevations with positive spacing the
\* slope written for each valid cell is a number in the closed range
\* [0, 90]: never negative, never NaN, never above 90, and exactly 90.0
\* where (and only where) the gradient along an axis is so large that its
\* float32 arctan rounds to pi/2.
C7_RangeBound ==
    FiniteGrid /\ SlopeWritten =>
        \A p \in InputCells :
            ~Invalid(p) =>
                LET s == slope_file.data[p]
                    gx == GradX(src.data, src.rows, src.cols, Abs(src.a), p)
                    gy == GradY(src.data, src.rows, src.cols, Abs(src.e), p)
                IN  /\ ~s.nan /\ s.n >= 0 /\ s.d >= 0
                    /\ s = Deg90 <=> Saturates(gx) \/ Saturates(gy)

\* a finite grid with a valid cell at exactly 90 degrees and one below 90
C7_Witness ==
    /\ FiniteGrid /\ SlopeWritten
    /\ \E p, q \in InputCells :
        /\ ~Invalid(p) /\ slope_file.data[p] = Deg90
        /\ ~Invalid(q) /\ slope_file.data[q] # Deg90

----------------------------------------------------------------------------
\* the input with every no-data cell holding x instead, x the new sentinel
WithSentinel(x) == [p \in InputCells |-> IF Invalid(p) THEN x ELSE src.data[p]]

\* the sentinels that leave the mask as it is: x equals no valid elevation
OtherSentinels ==
    {x \in SteepElevations : ~x.nan /\ \A p \in InputCells : Invalid(p) \/ ~FEq(src.data[p], x)}

\* C8 as stated: the slope and the class of a valid cell do not depend on the
\* value stored in any no-data cell: a run on the same grid with the same
\* mask and another sentinel value in the no-data cells yields the same
\* slope and the same class at every valid cell.
C8_NoDataExcluded ==
    src.readable /\ src.nodata.declared /\ ClassWritten =>
        \A x \in OtherSentinels :
            LET d2 == WithSentinel(x)
                m2 == ValidityMask(d2, Sentinel(x))
                s2 == SlopeGrid(d2, m2, src.rows, src.cols,
                                PixelSize(src.a), PixelSize(src.e))
                c2 == ClassGrid(s2, m2)
            IN  /\ m2 = mask
                /\ \A p \in InputCells :
                    ~Invalid(p) =>
                        /\ s2[p] = slope_file.data[p]
                        /\ c2[p] = class_file.data[p]

----------------------------------------------------------------------------
\* the class distribution has been computed
Counted == count # <<>>

\* the valid cells of class i
ValidOfClass(i) == {p \in InputCells : ~Invalid(p) /\ classes[p] = i}

RECURSIVE SumTo(_, _)
SumTo(f, i) == IF i < 0 THEN 0 ELSE f[i] + SumTo(f, i - 1)

\* C9 as stated: count[i] is the number of valid pixels of class i and pct[i]
\* is 100 * count[i] / (number of valid pixels); with at least one valid
\* pixel the five counts sum to the number of valid pixels and no percentage
\* exceeds 100.
C9_Distribution ==
    Counted =>
        LET valid == Cardinality({p \in InputCells : ~Invalid(p)})
        IN  /\ \A i \in 0..4 :
                /\ count[i] = Cardinality(ValidOfClass(i))
                /\ pct[i] = [n |-> 100 * count[i], d |-> valid]
            /\ valid > 0 =>
                /\ SumTo(count, 4) = valid
                /\ \A i \in 0..4 : pct[i].n <= 100 * pct[i].d

----------------------------------------------------------------------------
\* C10 (run outcome and write order): main returns 1 without creating the
\* output directory or writing a raster when the DEM does not exist;
\* otherwise the slope raster is written before classification starts, the
\* class raster after it, and main returns 0 only after both rasters are
\* written; a failure after the slope write leaves the slope raster without
\* a class raster.
C10_RunOutcome ==
    /\ ~dem_exists =>
        /\ ~mkdir_called /\ slope_file = NoFile /\ class_file = NoFile
        /\ ret # 0
        /\ pc = "done" => ret = 1
    /\ ret = 1 => ~dem_exists
    /\ pc \in {"classify", "write_classes", "complete"} \/ classes # EmptyGrid
        => SlopeWritten /\ slope_file.data = slope_deg
    /\ class_file.state # "absent" => SlopeWritten /\ classes # EmptyGrid /\ Counted
    /\ ret = 0 => SlopeWritten /\ ClassWritten /\ err = "none" /\ pc = "done"
    /\ err # "none" => ret = -1 /\ ~ClassWritten
    /\ pc = "done" => ret \in {0, 1} \/ err # "none"

\* a run that failed while writing the class raster, the slope raster on disk
C10_WitnessFailure == err = "IOError" /\ SlopeWritten /\ class_file.state = "failed"

\* a run that returned 0
C10_Witness == ret = 0 /\ SlopeWritten /\ ClassWritten /\ dem_exists

====
